---- MODULE Spec2Model ----
(***************************************************************************)
(* Render-node control panel of AMI: the node list view, the node detail   *)
(* view (Node.svelte) and the RustySynth property editor.  The components  *)
(* read the client-side cache ($cache.render_nodes), keep a little local   *)
(* UI state (currentNode, the four reverb fields) and forward every edit   *)
(* to the remote API (getApi()).  The backend behind getApi() and the code *)
(* that refreshes the cache are not part of these files; they are modelled *)
(* here as the environment (BackendApply, BackendFail, CacheRefresh).      *)
(*                                                                         *)
(* Indices are 0-based as in the JavaScript; render_nodes is a TLA+        *)
(* sequence, so node i of the code is render_nodes[i + 1].                 *)
(***************************************************************************)
EXTENDS Integers, Sequences, FiniteSets

VARIABLES
    render_nodes,    \* $cache.render_nodes: the client-side mirror of the node list
    currentNode,     \* the bound prop currentNode: Null or the index of the open node
    mounted,         \* the editor components the detail view has rendered
    id,              \* the prop id of the mounted editor
    reverbRoomSize,  \* RustySynth's local fields, bound to the four reverb NumProps
    reverbDamping,
    reverbWidth,
    reverbLevel,
    inflight,        \* remote calls whose handler is still suspended at its await
    nEvents,         \* history: UI events of the call-issuing kind handled so far
    nCalls,          \* history: remote calls issued so far
    nSettled,        \* history: handlers that have resumed after their call settled
    event            \* history: what the last step was, [name, arg]

vars == <<render_nodes, currentNode, mounted, id, reverbRoomSize, reverbDamping,
          reverbWidth, reverbLevel, inflight, nEvents, nCalls, nSettled, event>>

editorVars == <<mounted, id, reverbRoomSize, reverbDamping, reverbWidth, reverbLevel>>

(***************************************************************************)
(* Bounds of the model.                                                    *)
(***************************************************************************)
MaxNodes == 2
MaxCalls == 2

(***************************************************************************)
(* Values.                                                                 *)
(***************************************************************************)
\* currentNode = null (goBackToInstrumentList); encoded as an index no node has.
Null == -1

\* A local reverb field of an editor that is not mounted (let reverbRoomSize;).
Undefined == -2

\* A list that offers a kind the detail view has no editor for.
NODE_KINDS_broad == {"RustySynth", "OxiSynth", "FluidliteSynth", "SfizzSynth", "OtherSynth"}

\* The kinds offered for creation: the first components of NODE_KINDS.
NODE_KINDS == {"RustySynth", "OxiSynth", "FluidliteSynth", "SfizzSynth"}

\* Kinds of the node the backend holds at start-up, if it holds one: a kind
\* with an editor and a kind tag the UI does not know.
InitialKinds == {"RustySynth", "OtherSynth"}

\* Values a reverb NumProp is set to, in hundredths (defaultValue 0.2).
ReverbValues == {20, 50}

\* The user-preset buttons: range(0,4), range(4,10), range(10,16); the first
\* and the last of them.
UserPresets == {0, 15}

DefaultReverb == [room_size |-> 20, damping |-> 20, width |-> 20, level |-> 20]

\* A node as the backend reports it after creating it.  made is history: the
\* node stems from this UI's newNode (or is a clone of such a node).
NewNode(kind, made) ==
    [kind |-> kind,
     made |-> made,
     instance |-> [enabled |-> TRUE,
                   ignore_global_transposition |-> FALSE,
                   reverb |-> DefaultReverb]]

\* The rows the list view renders: {#each nodes as {instance}, nodeId}.
Rows(nodes) == 0 .. (Len(nodes) - 1)

\* $cache.render_nodes[currentNode]?.kind
KindOf(nodes, cur) ==
    IF cur \in Rows(nodes) THEN nodes[cur + 1].kind ELSE "undefined"

\* $cache.render_nodes[currentNode]?.instance (read only where it is defined)
InstanceOf(nodes, cur) == nodes[cur + 1].instance

kind == KindOf(render_nodes, currentNode)

instance == InstanceOf(render_nodes, currentNode)

\* No handler has a settled call to resume from: promise continuations run as
\* microtasks, before the next UI event or message is handled.
Idle == \A i \in 1 .. Len(inflight) : inflight[i].status = "sent"

(***************************************************************************)
(* Node.svelte: the detail view.                                           *)
(***************************************************************************)
\* A chain that misses one of the three kinds of the first branch.
Dispatch_noFluidlite(k) ==
    IF k = "RustySynth" \/ k = "OxiSynth" THEN {"RustySynth"}
    ELSE IF k = "SfizzSynth" THEN {"SfizzSynth"}
    ELSE {}

\* The {#if}/{:else if} chain on kind: the editor components it renders.
Dispatch(k) ==
    IF k = "RustySynth" \/ k = "OxiSynth" \/ k = "FluidliteSynth" THEN {"RustySynth"}
    ELSE IF k = "SfizzSynth" THEN {"SfizzSynth"}
    ELSE {}

\* RustySynth.svelte, updateReverbFields(): copy instance.reverb to the fields.
updateReverbFields(inst) ==
    /\ reverbRoomSize' = inst.reverb.room_size
    /\ reverbDamping' = inst.reverb.damping
    /\ reverbWidth' = inst.reverb.width
    /\ reverbLevel' = inst.reverb.level

\* An update that passes id only when it mounts the editor.
Flush_staleId(storeSet) ==
    LET eds == Dispatch(KindOf(render_nodes', currentNode'))
        fresh == storeSet \/ currentNode' # currentNode \/ "RustySynth" \notin mounted
    IN  /\ mounted' = eds
        /\ id' = IF eds = {} THEN Null ELSE IF mounted = {} THEN currentNode' ELSE id
        /\ IF "RustySynth" \in eds
           THEN IF fresh
                THEN updateReverbFields(InstanceOf(render_nodes', currentNode'))
                ELSE UNCHANGED <<reverbRoomSize, reverbDamping, reverbWidth, reverbLevel>>
           ELSE /\ reverbRoomSize' = Undefined
                /\ reverbDamping' = Undefined
                /\ reverbWidth' = Undefined
                /\ reverbLevel' = Undefined

\* The component update that follows a change of $cache or of currentNode:
\* kind and instance are recomputed, the {#if} chain mounts or destroys the
\* editors, the mounted editor gets id={currentNode}, and, instance being an
\* object, every store set and every change of currentNode invalidates it in
\* the editor, which runs  $: {instance; updateReverbFields();}.
Flush(storeSet) ==
    LET eds == Dispatch(KindOf(render_nodes', currentNode'))
        fresh == storeSet \/ currentNode' # currentNode \/ "RustySynth" \notin mounted
    IN  /\ mounted' = eds
        /\ id' = IF eds = {} THEN Null ELSE currentNode'
        /\ IF "RustySynth" \in eds
           THEN IF fresh
                THEN updateReverbFields(InstanceOf(render_nodes', currentNode'))
                ELSE UNCHANGED <<reverbRoomSize, reverbDamping, reverbWidth, reverbLevel>>
           ELSE /\ reverbRoomSize' = Undefined
                /\ reverbDamping' = Undefined
                /\ reverbWidth' = Undefined
                /\ reverbLevel' = Undefined

\* goBackToInstrumentList()
goBackToInstrumentList ==
    /\ currentNode' = Null
    /\ UNCHANGED <<render_nodes, inflight, nCalls, nSettled>>

\* The back button of the header.
OnClickBack ==
    /\ Idle
    /\ goBackToInstrumentList
    /\ Flush(FALSE)
    /\ event' = [name |-> "back", arg |-> Null]
    /\ UNCHANGED nEvents

(***************************************************************************)
(* A remote call: await getApi().<op>(...).  The call is issued and the    *)
(* handler is suspended until the call settles (Resume).                   *)
(***************************************************************************)
Call(op, nid, arg) ==
    /\ nCalls < MaxCalls
    /\ inflight' = Append(inflight, [op |-> op, id |-> nid, arg |-> arg, status |-> "sent"])
    /\ nCalls' = nCalls + 1
    /\ UNCHANGED nSettled

\* The calls of the list view; their handlers console.log the result.
ListOps == {"addRenderNode", "removeRenderNode", "cloneRenderNode",
            "renderNodeSetEnabled", "rendererSetUserPreset"}

(***************************************************************************)
(* The node list view: its handlers.                                       *)
(***************************************************************************)
newNode(k) ==
    /\ Call("addRenderNode", Null, k)
    /\ UNCHANGED <<render_nodes, currentNode>>

removeNode(nid) ==
    /\ Call("removeRenderNode", nid, Null)
    /\ UNCHANGED <<render_nodes, currentNode>>

cloneNode(nid) ==
    /\ Call("cloneRenderNode", nid, Null)
    /\ UNCHANGED <<render_nodes, currentNode>>

\* A handler that also flips the cached value itself.
toggleNode_optimistic(nid) ==
    LET prevValue == render_nodes[nid + 1].instance.enabled
    IN  /\ Call("renderNodeSetEnabled", nid, ~prevValue)
        /\ render_nodes' = [render_nodes EXCEPT ![nid + 1].instance.enabled = ~prevValue]
        /\ UNCHANGED currentNode

\* A slip that requests the value the node already has.
toggleNode_noNegation(nid) ==
    LET prevValue == render_nodes[nid + 1].instance.enabled
    IN  /\ Call("renderNodeSetEnabled", nid, prevValue)
        /\ UNCHANGED <<render_nodes, currentNode>>

toggleNode(nid) ==
    LET prevValue == render_nodes[nid + 1].instance.enabled
    IN  /\ Call("renderNodeSetEnabled", nid, ~prevValue)
        /\ UNCHANGED <<render_nodes, currentNode>>

setUserPreset(preset) ==
    /\ Call("rendererSetUserPreset", Null, preset)
    /\ UNCHANGED <<render_nodes, currentNode>>

openNode(nid) ==
    /\ currentNode' = nid
    /\ UNCHANGED <<render_nodes, inflight, nCalls, nSettled>>

(***************************************************************************)
(* The node list view: its buttons.                                        *)
(***************************************************************************)
\* A handler that issues a call, run for a UI event.
Handled(name, arg) ==
    /\ Idle
    /\ Flush(FALSE)
    /\ nEvents' = nEvents + 1
    /\ event' = [name |-> name, arg |-> arg]

OnClickToggle(nodeId) ==
    /\ nodeId \in Rows(render_nodes)
    /\ toggleNode(nodeId)
    /\ Handled("toggleNode", nodeId)

OnClickOpen(nodeId) ==
    /\ Idle
    /\ nodeId \in Rows(render_nodes)
    /\ openNode(nodeId)
    /\ Flush(FALSE)
    /\ event' = [name |-> "openNode", arg |-> nodeId]
    /\ UNCHANGED nEvents

OnClickClone(nodeId) ==
    /\ nodeId \in Rows(render_nodes)
    /\ cloneNode(nodeId)
    /\ Handled("cloneNode", nodeId)

OnClickRemove(nodeId) ==
    /\ nodeId \in Rows(render_nodes)
    /\ removeNode(nodeId)
    /\ Handled("removeNode", nodeId)

OnClickNew(k) ==
    /\ k \in NODE_KINDS
    /\ newNode(k)
    /\ Handled("newNode", k)

OnClickUserPreset(i) ==
    /\ i \in UserPresets
    /\ setUserPreset(i)
    /\ Handled("setUserPreset", i)

(***************************************************************************)
(* RustySynth.svelte: the handlers of the property editor.  id is the      *)
(* editor's prop.                                                          *)
(***************************************************************************)
changeName(newName) ==
    /\ Call("nodeSetName", id, newName)
    /\ UNCHANGED <<render_nodes, currentNode>>

changeEnabled(newEnabled) ==
    /\ Call("nodeSetEnabled", id, newEnabled)
    /\ UNCHANGED <<render_nodes, currentNode>>

\* A slip that forwards the switch's value as it is.
changeGlobalTransposition_plain(newEnabled) ==
    /\ Call("nodeSetIgnoreGlobalTransposition", id, newEnabled)
    /\ UNCHANGED <<render_nodes, currentNode>>

changeGlobalTransposition(newEnabled) ==
    /\ Call("nodeSetIgnoreGlobalTransposition", id, ~newEnabled)
    /\ UNCHANGED <<render_nodes, currentNode>>

changeGain(newGain) ==
    /\ Call("nodeSetGain", id, newGain)
    /\ UNCHANGED <<render_nodes, currentNode>>

changeTransposition(newTransposition) ==
    /\ Call("nodeSetTransposition", id, newTransposition)
    /\ UNCHANGED <<render_nodes, currentNode>>

changeVelocityMapping(newMapping) ==
    /\ Call("nodeSetVelocityMapping", id, newMapping)
    /\ UNCHANGED <<render_nodes, currentNode>>

loadFile(newFile) ==
    /\ Call("nodeLoadFile", id, newFile)
    /\ UNCHANGED <<render_nodes, currentNode>>

changeBankAndPreset(newBank, newPreset) ==
    /\ Call("nodeSetBankAndPreset", id, <<newBank, newPreset>>)
    /\ UNCHANGED <<render_nodes, currentNode>>

changeReverbActive(active) ==
    /\ Call("nodeSetSfReverbActive", id, active)
    /\ UNCHANGED <<render_nodes, currentNode>>

\* A slip that reads the four values from the cached instance.
changeReverbParams_cached ==
    /\ Call("nodeSetSfReverbParams", id, instance.reverb)
    /\ UNCHANGED <<render_nodes, currentNode>>

\* The four fields are read when the handler runs, after the binding has
\* stored the edited value: hence the primes.
changeReverbParams ==
    /\ Call("nodeSetSfReverbParams", id,
            [room_size |-> reverbRoomSize',
             damping |-> reverbDamping',
             width |-> reverbWidth',
             level |-> reverbLevel'])
    /\ UNCHANGED <<render_nodes, currentNode>>

(***************************************************************************)
(* RustySynth.svelte: the controls of the property editor.                 *)
(***************************************************************************)
\* <BoolProp name="Global transposition" value={!instance.ignore_global_transposition}>
\* the value the switch shows.
GlobalTranspositionShown(inst) == ~inst.ignore_global_transposition

\* An on:change of a control that is not bound to a local field.
Edited(name, arg) ==
    /\ "RustySynth" \in mounted
    /\ Handled(name, arg)

OnChangeName(v) == changeName(v) /\ Edited("changeName", v)

OnChangeEnabled(v) == changeEnabled(v) /\ Edited("changeEnabled", v)

OnChangeGlobalTransposition(v) ==
    changeGlobalTransposition(v) /\ Edited("changeGlobalTransposition", v)

\* v stands for toLin(e.detail), the linear gain the control hands over.
OnChangeGain(v) == changeGain(v) /\ Edited("changeGain", v)

OnChangeTransposition(v) == changeTransposition(v) /\ Edited("changeTransposition", v)

OnChangeVelocityMapping(v) == changeVelocityMapping(v) /\ Edited("changeVelocityMapping", v)

OnChangeFile(v) == loadFile(v) /\ Edited("loadFile", v)

OnChangePreset(b, p) == changeBankAndPreset(b, p) /\ Edited("changeBankAndPreset", <<b, p>>)

OnChangeReverbActive(v) == changeReverbActive(v) /\ Edited("changeReverbActive", v)

\* An on:change of a reverb NumProp: bind:value has stored v in the field.
ReverbEdited(name, v) ==
    /\ Idle
    /\ changeReverbParams
    /\ nEvents' = nEvents + 1
    /\ event' = [name |-> name, arg |-> v]
    /\ UNCHANGED <<mounted, id>>

OnChangeReverbRoomSize(v) ==
    /\ "RustySynth" \in mounted
    /\ reverbRoomSize' = v
    /\ UNCHANGED <<reverbDamping, reverbWidth, reverbLevel>>
    /\ ReverbEdited("reverbRoomSize", v)

OnChangeReverbDamping(v) ==
    /\ "RustySynth" \in mounted
    /\ reverbDamping' = v
    /\ UNCHANGED <<reverbRoomSize, reverbWidth, reverbLevel>>
    /\ ReverbEdited("reverbDamping", v)

OnChangeReverbWidth(v) ==
    /\ "RustySynth" \in mounted
    /\ reverbWidth' = v
    /\ UNCHANGED <<reverbRoomSize, reverbDamping, reverbLevel>>
    /\ ReverbEdited("reverbWidth", v)

OnChangeReverbLevel(v) ==
    /\ "RustySynth" \in mounted
    /\ reverbLevel' = v
    /\ UNCHANGED <<reverbRoomSize, reverbDamping, reverbWidth>>
    /\ ReverbEdited("reverbLevel", v)

(***************************************************************************)
(* The handlers after their await.                                         *)
(***************************************************************************)
RemoveAt(seq, i) == SubSeq(seq, 1, i - 1) \o SubSeq(seq, i + 1, Len(seq))

\* A slip that issues the call again when it failed.
Resume_retry(i) ==
    LET c == inflight[i]
    IN  /\ c.status # "sent"
        /\ IF c.status = "failed" /\ nCalls < MaxCalls
           THEN /\ inflight' = [inflight EXCEPT ![i].status = "sent"]
                /\ nCalls' = nCalls + 1
           ELSE /\ inflight' = RemoveAt(inflight, i)
                /\ UNCHANGED nCalls
        /\ nSettled' = nSettled + 1
        /\ event' = [name |-> IF c.status = "failed" THEN "rejected"
                              ELSE IF c.op \in ListOps THEN "logged" ELSE "returned",
                     arg |-> Null]
        /\ UNCHANGED <<render_nodes, currentNode, editorVars, nEvents>>

\* A slip that leaves the detail view when the call failed.
Resume_leavesOnFailure(i) ==
    LET c == inflight[i]
    IN  /\ c.status # "sent"
        /\ inflight' = RemoveAt(inflight, i)
        /\ nSettled' = nSettled + 1
        /\ currentNode' = IF c.status = "failed" THEN Null ELSE currentNode
        /\ UNCHANGED <<render_nodes, nEvents, nCalls>>
        /\ Flush(FALSE)
        /\ event' = [name |-> IF c.status = "failed" THEN "rejected"
                              ELSE IF c.op \in ListOps THEN "logged" ELSE "returned",
                     arg |-> Null]

\* The call of handler i has settled.  Fulfilled: a list handler logs the
\* result, an editor handler returns.  Rejected: the await throws and the
\* handler's promise rejects; no statement of the handler runs.
Resume(i) ==
    LET c == inflight[i]
    IN  /\ c.status # "sent"
        /\ inflight' = RemoveAt(inflight, i)
        /\ nSettled' = nSettled + 1
        /\ event' = [name |-> IF c.status = "failed" THEN "rejected"
                              ELSE IF c.op \in ListOps THEN "logged" ELSE "returned",
                     arg |-> Null]
        /\ UNCHANGED <<render_nodes, currentNode, editorVars, nEvents, nCalls>>

(***************************************************************************)
(* The environment: the backend behind getApi() and the cache it feeds.    *)
(***************************************************************************)
SetInstance(nodes, nid, inst) ==
    IF nid \in Rows(nodes) THEN [nodes EXCEPT ![nid + 1].instance = inst] ELSE nodes

\* The node list after the backend has carried out call c.
Apply(nodes, c) ==
    CASE c.op = "addRenderNode" ->
            IF Len(nodes) < MaxNodes THEN Append(nodes, NewNode(c.arg, TRUE)) ELSE nodes
      [] c.op = "removeRenderNode" ->
            IF c.id \in Rows(nodes) THEN RemoveAt(nodes, c.id + 1) ELSE nodes
      [] c.op = "cloneRenderNode" ->
            IF c.id \in Rows(nodes) /\ Len(nodes) < MaxNodes
            THEN Append(nodes, nodes[c.id + 1]) ELSE nodes
      [] c.op \in {"renderNodeSetEnabled", "nodeSetEnabled"} /\ c.id \in Rows(nodes) ->
            SetInstance(nodes, c.id, [nodes[c.id + 1].instance EXCEPT !.enabled = c.arg])
      [] c.op = "nodeSetIgnoreGlobalTransposition" /\ c.id \in Rows(nodes) ->
            SetInstance(nodes, c.id,
                [nodes[c.id + 1].instance EXCEPT !.ignore_global_transposition = c.arg])
      [] c.op = "nodeSetSfReverbParams" /\ c.id \in Rows(nodes) ->
            SetInstance(nodes, c.id, [nodes[c.id + 1].instance EXCEPT !.reverb = c.arg])
      [] OTHER -> nodes

\* The backend carries out call i and the cache store is set to the result.
BackendApply(i) ==
    /\ Idle
    /\ render_nodes' = Apply(render_nodes, inflight[i])
    /\ inflight' = [inflight EXCEPT ![i].status = "ok"]
    /\ UNCHANGED <<currentNode, nEvents, nCalls, nSettled>>
    /\ Flush(TRUE)
    /\ event' = [name |-> "backendApply", arg |-> i]

\* Call i fails: nothing is carried out.
BackendFail(i) ==
    /\ Idle
    /\ inflight' = [inflight EXCEPT ![i].status = "failed"]
    /\ event' = [name |-> "backendFail", arg |-> i]
    /\ UNCHANGED <<render_nodes, currentNode, editorVars, nEvents, nCalls, nSettled>>

\* The cache store is set again with the same node list (another part of the
\* cache has changed).
CacheRefresh ==
    /\ Idle
    /\ UNCHANGED <<render_nodes, currentNode, inflight, nEvents, nCalls, nSettled>>
    /\ Flush(TRUE)
    /\ event' = [name |-> "cacheRefresh", arg |-> Null]

(***************************************************************************)
(* The specification.                                                      *)
(***************************************************************************)
Init ==
    /\ render_nodes \in {<<>>} \cup {<<NewNode(k, FALSE)>> : k \in InitialKinds}
    /\ currentNode = Null
    /\ mounted = {}
    /\ id = Null
    /\ reverbRoomSize = Undefined
    /\ reverbDamping = Undefined
    /\ reverbWidth = Undefined
    /\ reverbLevel = Undefined
    /\ inflight = <<>>
    /\ nEvents = 0
    /\ nCalls = 0
    /\ nSettled = 0
    /\ event = [name |-> "init", arg |-> Null]

\* The parent that places the two views is not part of these files: the
\* buttons of the list and of the detail view are taken to be usable in any
\* state, which covers a layout that shows one view at a time.
Next ==
    \/ OnClickBack
    \/ \E nodeId \in Rows(render_nodes) : OnClickOpen(nodeId)
    \/ \E nodeId \in Rows(render_nodes) : OnClickToggle(nodeId)
    \/ \E nodeId \in Rows(render_nodes) : OnClickClone(nodeId)
    \/ \E nodeId \in Rows(render_nodes) : OnClickRemove(nodeId)
    \/ \E k \in NODE_KINDS : OnClickNew(k)
    \/ \E i \in UserPresets : OnClickUserPreset(i)
    \/ \E v \in {"piano"} : OnChangeName(v)
    \/ \E v \in BOOLEAN : OnChangeEnabled(v)
    \/ \E v \in BOOLEAN : OnChangeGlobalTransposition(v)
    \/ \E v \in {1} : OnChangeGain(v)
    \/ \E v \in {12} : OnChangeTransposition(v)
    \/ \E v \in {"linear"} : OnChangeVelocityMapping(v)
    \/ \E v \in {"a.sf2"} : OnChangeFile(v)
    \/ \E b \in {0} : \E p \in {1} : OnChangePreset(b, p)
    \/ \E v \in {TRUE} : OnChangeReverbActive(v)
    \/ \E v \in ReverbValues : OnChangeReverbRoomSize(v)
    \/ \E v \in ReverbValues : OnChangeReverbDamping(v)
    \/ \E v \in ReverbValues : OnChangeReverbWidth(v)
    \/ \E v \in ReverbValues : OnChangeReverbLevel(v)
    \/ \E i \in 1 .. Len(inflight) : Resume(i)
    \/ \E i \in 1 .. Len(inflight) : BackendApply(i)
    \/ \E i \in 1 .. Len(inflight) : BackendFail(i)
    \/ CacheRefresh

Spec == Init /\ [][Next]_vars

(***************************************************************************)
(* Properties.                                                             *)
(***************************************************************************)
\* The call issued last.
LastCall == inflight[Len(inflight)]

\* The four local reverb fields.
Fields == [room_size |-> reverbRoomSize, damping |-> reverbDamping,
           width |-> reverbWidth, level |-> reverbLevel]

EditorEvents == {"changeName", "changeEnabled", "changeGlobalTransposition", "changeGain",
                 "changeTransposition", "changeVelocityMapping", "loadFile",
                 "changeBankAndPreset", "changeReverbActive"}

ReverbEvents == {"reverbRoomSize", "reverbDamping", "reverbWidth", "reverbLevel"}

\* C1: the cached node list changes only in a step in which the backend sets
\* the cache; no step of a UI handler (open, back, toggle, add, remove, clone,
\* user preset, any edit) and no resumption of a handler changes it.
C1_CacheWrittenOnlyByBackend ==
    [][render_nodes' # render_nodes => event'.name = "backendApply"]_vars

\* A clone has been requested from the list while an earlier call is pending.
C1_Witness ==
    /\ event.name = "cloneNode"
    /\ Len(inflight) = 2

\* C2: every call-issuing UI event has issued exactly one call, and every
\* call issued is either still pending or has settled once: none is issued
\* again and none is dropped.
C2_OneCallPerEvent ==
    /\ nCalls = nEvents
    /\ Len(inflight) + nSettled = nCalls

\* Two events were handled; the call of one has failed while the other is
\* still pending.
C2_Witness ==
    /\ nEvents = 2
    /\ event.name = "rejected"
    /\ Len(inflight) = 1
    /\ nSettled = 1

\* C3: the step in which a handler resumes from a failed call issues no call
\* and changes neither the cache nor currentNode; the handler is gone after it.
C3_FailureOnlyPropagated ==
    [][(event'.name = "rejected" /\ nSettled' = nSettled + 1)
        => /\ nCalls' = nCalls
           /\ Len(inflight') = Len(inflight) - 1
           /\ \A i \in 1 .. Len(inflight') : inflight'[i].status = "sent"
           /\ render_nodes' = render_nodes
           /\ currentNode' = currentNode]_vars

\* An editor call has failed while the editor is open; both calls have settled.
C3_Witness ==
    /\ event.name = "rejected"
    /\ nSettled = 2
    /\ "RustySynth" \in mounted

\* C4: the RustySynth editor is rendered exactly for the kinds RustySynth,
\* OxiSynth and FluidliteSynth of the current node, the SfizzSynth editor
\* exactly for SfizzSynth, at most one editor at a time, and none when
\* currentNode names no node of the cache.
C4_DetailViewDispatch ==
    /\ ("RustySynth" \in mounted) <=> (kind \in {"RustySynth", "OxiSynth", "FluidliteSynth"})
    /\ ("SfizzSynth" \in mounted) <=> (kind = "SfizzSynth")
    /\ mounted \subseteq {"RustySynth", "SfizzSynth"}
    /\ Cardinality(mounted) <= 1
    /\ currentNode \notin Rows(render_nodes) => mounted = {}

\* The open node was removed: currentNode is an index past the end of the list.
C4_Witness ==
    /\ currentNode # Null
    /\ currentNode >= Len(render_nodes)
    /\ mounted = {}

\* C5: toggle, clone and remove pass the index of the clicked row, openNode
\* sets currentNode to it, and every editor setter passes currentNode.
C5_NodeIdentifiedByIndex ==
    /\ event.name = "toggleNode"
        => LastCall.op = "renderNodeSetEnabled" /\ LastCall.id = event.arg
    /\ event.name = "cloneNode"
        => LastCall.op = "cloneRenderNode" /\ LastCall.id = event.arg
    /\ event.name = "removeNode"
        => LastCall.op = "removeRenderNode" /\ LastCall.id = event.arg
    /\ event.name = "openNode" => currentNode = event.arg
    /\ event.name \in EditorEvents \cup ReverbEvents
        => LastCall.id = currentNode /\ currentNode \in Rows(render_nodes)

\* A property of the second node of the list has been edited.
C5_Witness ==
    /\ event.name = "changeName"
    /\ currentNode = 1
    /\ LastCall.id = 1

\* C6: a toggle of row r requests the negation of the cached enabled value of
\* node r; a toggle of r that directly follows a toggle of r requests the same
\* value again.
C6_ToggleRequestsNegatedCache ==
    [][(event'.name = "toggleNode" /\ nCalls' = nCalls + 1)
        => LET c == inflight'[Len(inflight')]
               r == event'.arg
           IN  /\ c.op = "renderNodeSetEnabled"
               /\ c.arg = ~render_nodes[r + 1].instance.enabled
               /\ (event.name = "toggleNode" /\ event.arg = r) => c.arg = LastCall.arg]_vars

\* Two toggles of the same node are pending and request the same value.
C6_Witness ==
    /\ event.name = "toggleNode"
    /\ Len(inflight) = 2
    /\ inflight[1].op = "renderNodeSetEnabled"
    /\ inflight[2].op = "renderNodeSetEnabled"
    /\ inflight[1].id = inflight[2].id
    /\ inflight[1].arg = inflight[2].arg

\* C7: an edit of one reverb field issues one nodeSetSfReverbParams call that
\* carries the edited value and the other three local fields as they were;
\* every refresh of instance (a cache set, a change of currentNode) sets the
\* four fields to the cached values; no other step changes a field.
C7_ReverbFields ==
    [][/\ (event'.name \in ReverbEvents /\ nCalls' = nCalls + 1)
            => LET c == inflight'[Len(inflight')]
                   f == CASE event'.name = "reverbRoomSize" -> "room_size"
                          [] event'.name = "reverbDamping" -> "damping"
                          [] event'.name = "reverbWidth" -> "width"
                          [] event'.name = "reverbLevel" -> "level"
               IN  /\ c.op = "nodeSetSfReverbParams"
                   /\ Len(inflight') = Len(inflight) + 1
                   /\ c.arg = [Fields EXCEPT ![f] = event'.arg]
                   /\ Fields' = c.arg
       /\ (/\ "RustySynth" \in mounted'
           /\ \/ event'.name \in {"backendApply", "cacheRefresh"}
              \/ currentNode' # currentNode)
            => Fields' = render_nodes'[currentNode' + 1].instance.reverb
       /\ (/\ event'.name \notin ReverbEvents \cup {"backendApply", "cacheRefresh"}
           /\ currentNode' = currentNode)
            => Fields' = Fields]_vars

\* Room size was edited, then damping, with no refresh between: the call of
\* the second edit carries the edited room size, which the cache does not hold.
C7_Witness ==
    /\ event.name = "reverbDamping"
    /\ Len(inflight) = 2
    /\ LastCall.arg.room_size = reverbRoomSize
    /\ reverbRoomSize # instance.reverb.room_size

\* C8: setting the switch to v requests ignore_global_transposition = ~v, and
\* once the backend has carried the request out on the open node and the cache
\* is set, the switch shows the negation of the value requested, that is v.
C8_GlobalTranspositionSwitch ==
    /\ event.name = "changeGlobalTransposition"
        => /\ LastCall.op = "nodeSetIgnoreGlobalTransposition"
           /\ LastCall.arg = ~event.arg
    /\ (/\ event.name = "backendApply"
        /\ inflight[event.arg].op = "nodeSetIgnoreGlobalTransposition"
        /\ inflight[event.arg].id = currentNode
        /\ "RustySynth" \in mounted)
        => GlobalTranspositionShown(instance) = ~inflight[event.arg].arg

\* The switch was set to off, the backend has carried it out, the switch
\* shows off.
C8_Witness ==
    /\ event.name = "backendApply"
    /\ inflight[event.arg].op = "nodeSetIgnoreGlobalTransposition"
    /\ inflight[event.arg].id = currentNode
    /\ "RustySynth" \in mounted
    /\ ~GlobalTranspositionShown(instance)

\* C9: an open node that was created with newNode (or cloned from such a
\* node) has an editor rendered.
C9_CreatedKindsHaveEditor ==
    (currentNode \in Rows(render_nodes) /\ render_nodes[currentNode + 1].made)
        => mounted # {}

\* A SfizzSynth node created with newNode is open in its editor.
C9_Witness ==
    /\ currentNode \in Rows(render_nodes)
    /\ render_nodes[currentNode + 1].made
    /\ kind = "SfizzSynth"
    /\ mounted = {"SfizzSynth"}

====
